---- MODULE Spec2Model ----
(***************************************************************************)
(* Model of the audio routing and modulation engine of Aetherloops         *)
(* (src/services/audioEngine.ts, class AudioEngine).                       *)
(*                                                                         *)
(* Numbers that are fractions in the source are kept in thousandths        *)
(* (0.6 is 600, 0.5 is 500).  Time is kept in ticks of 100 ms.             *)
(* An AudioParam is a record whose target is the value its timeline        *)
(* settles at: every scheduling call of the source is made at currentTime, *)
(* so the call made last decides it.                                       *)
(***************************************************************************)
EXTENDS Integers, Sequences, FiniteSets

VARIABLES tracks, masterGain, noiseSource, applied, last, rampLog

vars == <<tracks, masterGain, noiseSource, applied, last, rampLog>>

(* ------------------------------------------------------------------ *)
(* Bounds of the model                                                 *)
(* ------------------------------------------------------------------ *)
NumTracks == 3
MaxSources == 2
MaxDriftTimers == 2
MaxLeaked == 2
MaxInverters == 2
MaxFrames == 2
SampleSpan == 40
MaxRetries == 4

(* ------------------------------------------------------------------ *)
(* Program constants                                                   *)
(* ------------------------------------------------------------------ *)
PoolSize == 8
StopDelay == 1
DriftDelay == 21
DefaultRetries == 3
DefaultBaseDelay == 1000

TrackIds == 0 .. (NumTracks - 1)
Gens == 1 .. MaxSources

NoTrack == [present |-> FALSE]
Undefined == <<>>
Defined(x) == <<x>>

(* ------------------------------------------------------------------ *)
(* AudioParam: the calls the engine makes on a parameter               *)
(* ------------------------------------------------------------------ *)
(* ramps: the smoothed ramps scheduled on the parameter and not cancelled
   since: none, one, or (2) more than one.  It is history only, no operation
   reads it, and it is kept in the behaviours that start with rampLog. *)
Param(v) == [target |-> v, ramps |-> 0]
SetTargetAtTime(p, v) ==
    [target |-> v,
     ramps |-> IF ~rampLog THEN 0 ELSE IF p.ramps = 0 THEN 1 ELSE 2]
SetValueAtTime(p, v) == [p EXCEPT !.target = v]
SetValue(p, v) == [p EXCEPT !.target = v]
CancelScheduledValues(p) == [p EXCEPT !.ramps = 0]
resetParam(p, v) == SetValue(CancelScheduledValues(p), v)

(* A connection's destination: <<parameter, track id, source generation>> *)
Dest(kind, id, g) == <<kind, id, g>>

(* ------------------------------------------------------------------ *)
(* TrackData snapshots                                                 *)
(* ------------------------------------------------------------------ *)
LFOConfig(en, rate, depth) == [enabled |-> en, rate |-> rate, depth |-> depth]

createDefaultTrack(id) ==
    [ id |-> id, buffer |-> FALSE,
      isPlaying |-> FALSE, isMuted |-> FALSE, isSolo |-> FALSE,
      volume |-> 600, pan |-> 0, playbackRate |-> 1000,
      eqLow |-> 500, eqMid |-> 500, eqHigh |-> 500,
      lfoVol |-> LFOConfig(FALSE, 4000, 500),
      lfoPan |-> LFOConfig(FALSE, 500, 800),
      lfoPitch |-> LFOConfig(FALSE, 2000, 100),
      driftEnabled |-> FALSE, linkNext |-> FALSE, crossfadeSpeed |-> 100,
      reverbSend |-> 200, granularSpray |-> 0, feedbackSend |-> 0,
      feedbackTargetId |-> Defined((id + 1) % PoolSize) ]

(* ------------------------------------------------------------------ *)
(* Modulation slots of a track                                         *)
(* ------------------------------------------------------------------ *)
NoLFO == [osc |-> FALSE, gain |-> FALSE, freq |-> 0, depth |-> 0, out |-> {}]
NoDrift == [osc |-> FALSE, gain |-> FALSE, depth |-> 0, out |-> {}]
NoFade == [osc |-> FALSE, gain |-> FALSE, depth |-> 0, freq |-> 0,
           toFade |-> FALSE, toInv |-> FALSE, invGain |-> 0]

(* The EQ slider to dB mapping, in thousandths of a dB *)
(* A slip: the upper half reaches +6 dB only *)
mapGain_halfBoost(val) ==
    IF val <= 500 THEN (0 - 40000) + (val * 2 * 40)
    ELSE (val - 500) * 2 * 6

mapGain(val) ==
    IF val <= 500 THEN (0 - 40000) + (val * 2 * 40)
    ELSE (val - 500) * 2 * 12


(* ------------------------------------------------------------------ *)
(* Source generations                                                  *)
(* ------------------------------------------------------------------ *)
Present(T, id) == id \in TrackIds /\ T[id].present

(* The generations of track id that some node or connection still names *)
UsedGens(T, id) ==
    LET n == T[id]
        outs(m) == m.lfoPitch.out \cup m.sprayOut \cup m.fbFMOut
        all == UNION {outs(T[j]) : j \in {k \in TrackIds : T[k].present}}
    IN n.live \cup {d[3] : d \in {x \in all : x[1] = "rate" /\ x[2] = id}}

(* createBufferSource: a node no connection or timer refers to yet *)
FreshGen(T, id) ==
    LET free == Gens \ UsedGens(T, id)
    IN IF free = {} THEN MaxSources + 1
       ELSE CHOOSE g \in free : \A h \in free : g <= h

(* ------------------------------------------------------------------ *)
(* manageLFO / updateTrackLFOs                                         *)
(* ------------------------------------------------------------------ *)
(* A gain node the track no longer refers to stays connected to a parameter *)
Leak(n) == [n EXCEPT !.leaked = @ + 1]

(* A slip: the pair is built on every enabled call, without the test for an
   existing oscillator *)
manageLFO_recreate(n, key, config, targetParam, depthScalar) ==
    LET slot == n[key]
    IN IF config.enabled
       THEN LET n1 == IF slot.gain /\ slot.out # {} THEN Leak(n) ELSE n
                tuned == [osc |-> TRUE, gain |-> TRUE, freq |-> config.rate,
                          depth |-> (config.depth * depthScalar) \div 1000,
                          out |-> {}]
                wired == IF targetParam # {}
                         THEN [tuned EXCEPT !.out = targetParam]
                         ELSE tuned
            IN [n1 EXCEPT ![key] = wired]
       ELSE IF slot.osc THEN [n EXCEPT ![key] = NoLFO] ELSE n

manageLFO(n, key, config, targetParam, depthScalar) ==
    LET slot == n[key]
    IN IF config.enabled
       THEN LET n1 == IF ~slot.osc /\ slot.gain /\ slot.out # {}
                      THEN Leak(n) ELSE n
                created == IF ~slot.osc
                           THEN [osc |-> TRUE, gain |-> TRUE, freq |-> 0,
                                 depth |-> 0, out |-> {}]
                           ELSE slot
                tuned == [created EXCEPT
                            !.freq = config.rate,
                            !.depth = (config.depth * depthScalar) \div 1000]
                wired == IF targetParam # {}
                         THEN [tuned EXCEPT !.out = targetParam]
                         ELSE tuned
            IN [n1 EXCEPT ![key] = wired]
       ELSE IF slot.osc THEN [n EXCEPT ![key] = NoLFO] ELSE n

updateTrackLFOs(n, track) ==
    LET id == track.id
        n1 == manageLFO(n, "lfoVol", track.lfoVol, {Dest("tremolo", id, 0)}, 500)
        n2 == manageLFO(n1, "lfoPan", track.lfoPan, {Dest("pan", id, 0)}, 1000)
        pitchParam == IF n2.source # 0 THEN {Dest("rate", id, n2.source)} ELSE {}
    IN manageLFO(n2, "lfoPitch", track.lfoPitch, pitchParam, 200)

(* ------------------------------------------------------------------ *)
(* updateTrackDrift and its deferred teardown                          *)
(* ------------------------------------------------------------------ *)
(* A slip: the disable branch tears the generator down at once *)
updateTrackDrift_immediate(n, track) ==
    IF track.driftEnabled
    THEN LET created == IF ~n.drift.osc
                        THEN [osc |-> TRUE, gain |-> TRUE, depth |-> 1000,
                              out |-> {Dest("volGain", track.id, 0)}]
                        ELSE n.drift
         IN [n EXCEPT !.drift = [created EXCEPT !.depth = 300]]
    ELSE IF n.drift.osc THEN [n EXCEPT !.drift = NoDrift] ELSE n

updateTrackDrift(n, track) ==
    IF track.driftEnabled
    THEN LET n1 == IF ~n.drift.osc /\ n.drift.gain /\ n.drift.out # {}
                   THEN Leak(n) ELSE n
             created == IF ~n.drift.osc
                        THEN [osc |-> TRUE, gain |-> TRUE, depth |-> 1000,
                              out |-> {Dest("volGain", track.id, 0)}]
                        ELSE n.drift
         IN [n1 EXCEPT !.drift = [created EXCEPT !.depth = 300]]
    ELSE IF n.drift.osc
         THEN [n EXCEPT !.drift.depth = IF n.drift.gain THEN 0 ELSE @,
                        !.driftTimers = Append(@, DriftDelay),
                        !.sinceDisable = IF n.drift.depth # 0 THEN 0 ELSE @]
         ELSE n

(* A slip: the callback releases the gain but keeps the generator *)
driftTeardown_gainOnly(n) ==
    LET n1 == [n EXCEPT !.driftTimers = Tail(@)]
    IN IF n1.drift.osc THEN [n1 EXCEPT !.drift.gain = FALSE] ELSE n1

driftTeardown(n) ==
    LET n1 == [n EXCEPT !.driftTimers = Tail(@)]
    IN IF n1.drift.osc THEN [n1 EXCEPT !.drift = NoDrift] ELSE n1

(* ------------------------------------------------------------------ *)
(* updateTrackEQ                                                       *)
(* ------------------------------------------------------------------ *)
updateTrackEQ(n, track) ==
    [n EXCEPT !.eqLow = SetTargetAtTime(@, mapGain(track.eqLow)),
              !.eqMid = SetTargetAtTime(@, mapGain(track.eqMid)),
              !.eqHigh = SetTargetAtTime(@, mapGain(track.eqHigh))]

(* ------------------------------------------------------------------ *)
(* initTrack                                                           *)
(* ------------------------------------------------------------------ *)
newNodes(track) ==
    [ present |-> TRUE,
      source |-> 0, live |-> {}, rate |-> Param(0), stopTimers |-> {},
      volGain |-> Param(track.volume),
      muteGain |-> Param(IF track.isMuted THEN 0 ELSE 1000),
      fadeGain |-> Param(1000),
      pan |-> Param(track.pan),
      reverbSend |-> Param(track.reverbSend),
      sprayGain |-> Param(1000),
      feedbackGain |-> Param(0), feedbackFMGain |-> Param(0),
      eqLow |-> Param(0), eqMid |-> Param(0), eqHigh |-> Param(0),
      lfoVol |-> NoLFO, lfoPan |-> NoLFO, lfoPitch |-> NoLFO,
      drift |-> NoDrift, driftTimers |-> <<>>, sinceDisable |-> DriftDelay,
      fade |-> NoFade, inverters |-> 0, leaked |-> 0,
      sprayOut |-> {}, noiseIn |-> noiseSource,
      fbOut |-> {}, fbFMOut |-> {} ]

(* A slip: the nodes of a track already present are built again *)
initTrack_again(T, track) ==
    [T EXCEPT ![track.id] =
        updateTrackEQ(updateTrackDrift(updateTrackLFOs(newNodes(track), track),
                                       track), track)]

initTrack(T, track) ==
    IF T[track.id].present THEN T
    ELSE [T EXCEPT ![track.id] =
            updateTrackEQ(updateTrackDrift(updateTrackLFOs(newNodes(track), track),
                                           track), track)]

(* ------------------------------------------------------------------ *)
(* playTrack / stopTrack                                               *)
(* ------------------------------------------------------------------ *)
(* A slip: a source is created although the track already has one *)
playTrack_noGuard(T, track) ==
    LET id == track.id
        n == T[id]
        g == FreshGen(T, id)
    IN IF ~n.present \/ ~track.buffer THEN T
       ELSE [T EXCEPT ![id] =
               [n EXCEPT
                  !.rate = Param(track.playbackRate),
                  !.muteGain = SetValueAtTime(CancelScheduledValues(@),
                                              IF track.isMuted THEN 0 ELSE 1000),
                  !.live = @ \cup {g},
                  !.source = g,
                  !.lfoPitch.out = IF track.lfoPitch.enabled /\ n.lfoPitch.gain
                                   THEN @ \cup {Dest("rate", id, g)} ELSE @,
                  !.sprayOut = @ \cup {Dest("rate", id, g)}]]

playTrack(T, track) ==
    LET id == track.id
        n == T[id]
        g == FreshGen(T, id)
    IN IF ~n.present \/ ~track.buffer THEN T
       ELSE IF n.source # 0 THEN T
       ELSE [T EXCEPT ![id] =
               [n EXCEPT
                  !.rate = Param(track.playbackRate),
                  !.muteGain = SetValueAtTime(CancelScheduledValues(@),
                                              IF track.isMuted THEN 0 ELSE 1000),
                  !.live = @ \cup {g},
                  !.source = g,
                  !.lfoPitch.out = IF track.lfoPitch.enabled /\ n.lfoPitch.gain
                                   THEN @ \cup {Dest("rate", id, g)} ELSE @,
                  !.sprayOut = @ \cup {Dest("rate", id, g)}]]

(* A slip: the spray gain is not disconnected *)
stopTrack_sprayKept(T, trackId) ==
    LET n == T[trackId]
    IN IF n.present /\ n.source # 0
       THEN [T EXCEPT ![trackId] =
               [n EXCEPT
                  !.muteGain = SetTargetAtTime(CancelScheduledValues(@), 0),
                  !.source = 0,
                  !.rate = Param(0),
                  !.stopTimers = @ \cup {[gen |-> n.source, due |-> StopDelay]}]]
       ELSE T

(* A slip: the test for an active source is missing *)
stopTrack_unguarded(T, trackId) ==
    LET n == T[trackId]
    IN IF n.present
       THEN [T EXCEPT ![trackId] =
               [n EXCEPT
                  !.muteGain = SetTargetAtTime(CancelScheduledValues(@), 0),
                  !.sprayOut = {},
                  !.source = 0,
                  !.rate = Param(0),
                  !.stopTimers = @ \cup {[gen |-> n.source, due |-> StopDelay]}]]
       ELSE T

(* A slip: the old source is dropped without the deferred stop *)
stopTrack_noTimer(T, trackId) ==
    LET n == T[trackId]
    IN IF n.present /\ n.source # 0
       THEN [T EXCEPT ![trackId] =
               [n EXCEPT
                  !.muteGain = SetTargetAtTime(CancelScheduledValues(@), 0),
                  !.sprayOut = {},
                  !.noiseIn = IF noiseSource THEN TRUE ELSE @,
                  !.source = 0,
                  !.rate = Param(0)]]
       ELSE T

stopTrack(T, trackId) ==
    LET n == T[trackId]
    IN IF n.present /\ n.source # 0
       THEN [T EXCEPT ![trackId] =
               [n EXCEPT
                  !.muteGain = SetTargetAtTime(CancelScheduledValues(@), 0),
                  !.sprayOut = {},
                  !.noiseIn = IF noiseSource THEN TRUE ELSE @,
                  !.source = 0,
                  !.rate = Param(0),
                  !.stopTimers = @ \cup {[gen |-> n.source, due |-> StopDelay]}]]
       ELSE T

(* A slip: the callback stops whatever source the track has when it fires *)
stopOldSource_current(n, g) ==
    [n EXCEPT !.live = @ \ {g, n.source},
              !.source = 0,
              !.stopTimers = {t \in @ : t.gen # g}]

(* The callback stopTrack defers: oldSource.stop(); oldSource.disconnect() *)
stopOldSource(n, g) ==
    [n EXCEPT !.live = @ \ {g},
              !.stopTimers = {t \in @ : t.gen # g}]

(* ------------------------------------------------------------------ *)
(* updateCrossfade                                                     *)
(* ------------------------------------------------------------------ *)
(* A slip: the successor's crossfade gain is not biased at 0.5 *)
linkPair_noBias(T, trackA) ==
    LET a == trackA.id
    IN [T EXCEPT
          ![a] = [@ EXCEPT
                    !.fade = [osc |-> TRUE, gain |-> TRUE, depth |-> 500,
                              freq |-> 0, toFade |-> TRUE, toInv |-> TRUE,
                              invGain |-> 0 - 1000],
                    !.fadeGain = SetValue(@, 500),
                    !.inverters = @ + 1]]

linkPair(T, trackA) ==
    LET a == trackA.id
        b == a + 1
        A == T[a]
        A1 == IF A.fade.gain /\ (A.fade.toFade \/ A.fade.toInv)
              THEN Leak(A) ELSE A
    IN [T EXCEPT
          ![a] = [A1 EXCEPT
                    !.fade = [osc |-> TRUE, gain |-> TRUE, depth |-> 500,
                              freq |-> 0, toFade |-> TRUE, toInv |-> TRUE,
                              invGain |-> 0 - 1000],
                    !.fadeGain = SetValue(@, 500),
                    !.inverters = @ + 1],
          ![b] = [T[b] EXCEPT !.fadeGain = SetValue(@, 500)]]

(* A slip: the successor's volume gain is restored instead of its crossfade
   gain *)
unlinkPair_volGain(T, trackA) ==
    LET a == trackA.id
        b == a + 1
        T1 == [T EXCEPT ![a] = [@ EXCEPT !.fade = NoFade,
                                         !.fadeGain = SetTargetAtTime(@, 1000)]]
    IN IF Present(T, b)
       THEN [T1 EXCEPT ![b] = [@ EXCEPT !.volGain = SetTargetAtTime(@, 1000)]]
       ELSE T1

(* A slip: only A's crossfade gain is restored *)
unlinkPair_onlyA(T, trackA) ==
    [T EXCEPT ![trackA.id] = [@ EXCEPT !.fade = NoFade,
                                       !.fadeGain = SetTargetAtTime(@, 1000)]]

unlinkPair(T, trackA) ==
    LET a == trackA.id
        b == a + 1
        T1 == [T EXCEPT ![a] = [@ EXCEPT !.fade = NoFade,
                                         !.fadeGain = SetTargetAtTime(@, 1000)]]
    IN IF Present(T, b)
       THEN [T1 EXCEPT ![b] = [@ EXCEPT !.fadeGain = SetTargetAtTime(@, 1000)]]
       ELSE T1

(* A slip: the bridge is built on every update, without the fadeOsc test *)
updateCrossfade_rebuild(T, trackA) ==
    LET a == trackA.id
    IN IF ~T[a].present THEN T
       ELSE IF trackA.linkNext /\ Present(T, a + 1)
       THEN LET T1 == linkPair(T, trackA)
            IN [T1 EXCEPT ![a] = [@ EXCEPT !.fade.freq = trackA.crossfadeSpeed]]
       ELSE IF T[a].fade.osc THEN unlinkPair(T, trackA) ELSE T

updateCrossfade(T, trackA) ==
    LET a == trackA.id
    IN IF ~T[a].present THEN T
       ELSE IF trackA.linkNext /\ Present(T, a + 1)
       THEN LET T1 == IF ~T[a].fade.osc THEN linkPair(T, trackA) ELSE T
            IN IF T1[a].fade.osc
               THEN [T1 EXCEPT ![a] = [@ EXCEPT !.fade.freq = trackA.crossfadeSpeed]]
               ELSE T1
       ELSE IF T[a].fade.osc THEN unlinkPair(T, trackA) ELSE T

(* A slip: the bridge is evaluated for every track id *)
crossfade_anyId(T, track) == updateCrossfade(T, track)

(* if (track.id % 2 === 0) this.updateCrossfade(track) *)
crossfade(T, track) ==
    IF track.id % 2 = 0 THEN updateCrossfade(T, track) ELSE T

(* ------------------------------------------------------------------ *)
(* updateTrackParams                                                   *)
(* ------------------------------------------------------------------ *)
isAudible(track, soloActive) ==
    ~track.isMuted /\ ~(soloActive /\ ~track.isSolo)

(* A slip: the ring does not wrap *)
resolveTarget_noWrap(track) ==
    IF track.feedbackTargetId # Undefined
    THEN track.feedbackTargetId[1]
    ELSE track.id + 1

resolveTarget(track) ==
    IF track.feedbackTargetId # Undefined
    THEN track.feedbackTargetId[1]
    ELSE (track.id + 1) % PoolSize

(* A slip: the FM deviation spans 0..1 instead of 0..2 *)
fmAmount_halfScale(feedbackSend) ==
    IF feedbackSend > 500 THEN (feedbackSend - 500) * 2 ELSE 0

(* A slip: FM sets in without the 0.5 threshold *)
fmAmount_noThreshold(feedbackSend) == feedbackSend * 4

fmAmount(feedbackSend) ==
    IF feedbackSend > 500 THEN (feedbackSend - 500) * 4 ELSE 0

(* A slip: a playing track is restarted by every update that asks to play *)
transport_restart(T, track) ==
    LET n == T[track.id]
    IN IF track.isPlaying /\ track.buffer
       THEN playTrack(stopTrack(T, track.id), track)
       ELSE IF ~track.isPlaying /\ n.source # 0 THEN stopTrack(T, track.id)
       ELSE T

transport(T, track) ==
    LET n == T[track.id]
    IN IF track.isPlaying /\ n.source = 0 /\ track.buffer THEN playTrack(T, track)
       ELSE IF ~track.isPlaying /\ n.source # 0 THEN stopTrack(T, track.id)
       ELSE T

(* A slip: solo is not taken into account *)
volumeMute_noSolo(n, track, soloActive) ==
    [n EXCEPT !.volGain = SetTargetAtTime(@, track.volume),
              !.muteGain = SetTargetAtTime(@, IF track.isMuted THEN 0 ELSE 1000)]

volumeMute(n, track, soloActive) ==
    [n EXCEPT !.volGain = SetTargetAtTime(@, track.volume),
              !.muteGain = SetTargetAtTime(@, IF isAudible(track, soloActive)
                                              THEN 1000 ELSE 0)]

panPitch(n, track) ==
    [n EXCEPT !.pan = SetTargetAtTime(@, track.pan),
              !.rate = IF n.source # 0
                       THEN SetTargetAtTime(@, track.playbackRate) ELSE @]

granularSpray(n, track) ==
    [n EXCEPT !.sprayGain =
        SetTargetAtTime(@, IF track.granularSpray # 0
                           THEN (track.granularSpray * 800) \div 1000 ELSE 0)]

(* A slip: the old connections are kept *)
disconnectSends_kept(n) == n

(* nodes.feedbackGain.disconnect(); nodes.feedbackFMGain.disconnect() *)
disconnectSends(n) == [n EXCEPT !.fbOut = {}, !.fbFMOut = {}]

(* A slip: with the target off the send gains keep their targets *)
feedbackLoop_offKeepsGain(T, track) ==
    LET id == track.id
        targetId == resolveTarget(track)
        cut == disconnectSends(T[id])
        fmAmt == fmAmount(track.feedbackSend)
    IN IF targetId # 0 - 1
       THEN IF Present(T, targetId)
            THEN LET tn == IF targetId = id THEN cut ELSE T[targetId]
                 IN [T EXCEPT ![id] =
                      [cut EXCEPT
                         !.feedbackGain = SetTargetAtTime(@, track.feedbackSend * 3),
                         !.feedbackFMGain = SetTargetAtTime(@, fmAmt),
                         !.fbOut = IF track.feedbackSend > 10
                                   THEN @ \cup {Dest("eqMidFreq", targetId, 0)}
                                   ELSE @,
                         !.fbFMOut = IF track.feedbackSend > 10 /\ fmAmt > 0
                                        /\ tn.source # 0
                                     THEN @ \cup {Dest("rate", targetId, tn.source)}
                                     ELSE @]]
            ELSE [T EXCEPT ![id] = cut]
       ELSE [T EXCEPT ![id] = cut]

feedbackLoop(T, track) ==
    LET id == track.id
        targetId == resolveTarget(track)
        cut == disconnectSends(T[id])
        fmAmt == fmAmount(track.feedbackSend)
    IN IF targetId # 0 - 1
       THEN IF Present(T, targetId)
            THEN LET tn == IF targetId = id THEN cut ELSE T[targetId]
                 IN [T EXCEPT ![id] =
                      [cut EXCEPT
                         !.feedbackGain = SetTargetAtTime(@, track.feedbackSend * 3),
                         !.feedbackFMGain = SetTargetAtTime(@, fmAmt),
                         !.fbOut = IF track.feedbackSend > 10
                                   THEN @ \cup {Dest("eqMidFreq", targetId, 0)}
                                   ELSE @,
                         !.fbFMOut = IF track.feedbackSend > 10 /\ fmAmt > 0
                                        /\ tn.source # 0
                                     THEN @ \cup {Dest("rate", targetId, tn.source)}
                                     ELSE @]]
            ELSE [T EXCEPT ![id] = cut]
       ELSE [T EXCEPT ![id] =
               [cut EXCEPT !.feedbackGain = SetTargetAtTime(@, 0),
                           !.feedbackFMGain = SetTargetAtTime(@, 0)]]

updateTrackParams(T, track, soloActive) ==
    LET id == track.id
    IN IF ~T[id].present THEN T
       ELSE
       LET T1 == transport(T, track)
           n2 == panPitch(volumeMute(T1[id], track, soloActive), track)
           n4 == [updateTrackEQ(n2, track) EXCEPT
                    !.reverbSend = SetTargetAtTime(@, track.reverbSend)]
           n5 == updateTrackDrift(updateTrackLFOs(n4, track), track)
           T5 == [T1 EXCEPT ![id] = n5]
           T6 == crossfade(T5, track)
           T7 == [T6 EXCEPT ![id] = granularSpray(@, track)]
       IN feedbackLoop(T7, track)

(* ------------------------------------------------------------------ *)
(* reset                                                               *)
(* ------------------------------------------------------------------ *)
(* A slip: the scaling gain is released and the oscillator kept *)
killOsc_gainOnly(slot) == [slot EXCEPT !.gain = FALSE]

killOsc(slot) == [slot EXCEPT !.osc = FALSE]

resetTrack(T, id) ==
    LET T1 == stopTrack(T, id)
    IN [T1 EXCEPT ![id] =
         [@ EXCEPT
            !.lfoVol = killOsc(@), !.lfoPan = killOsc(@), !.lfoPitch = killOsc(@),
            !.drift = killOsc(@), !.fade = killOsc(@),
            !.volGain = resetParam(@, 600),
            !.muteGain = resetParam(@, 1000),
            !.fadeGain = resetParam(@, 1000),
            !.pan = resetParam(@, 0),
            !.reverbSend = resetParam(@, 200),
            !.sprayGain = resetParam(@, 0),
            !.feedbackGain = resetParam(@, 0),
            !.feedbackFMGain = resetParam(@, 0)]]

RECURSIVE resetFrom(_, _)
resetFrom(T, id) ==
    IF id >= NumTracks THEN T
    ELSE resetFrom(IF T[id].present THEN resetTrack(T, id) ELSE T, id + 1)

updateMasterVolume(vol) == SetTargetAtTime(masterGain, vol)

(* ------------------------------------------------------------------ *)
(* audioBufferToWav / createBufferFromRawPCM                          *)
(* ------------------------------------------------------------------ *)
(* A sample k stands for the Float32 value k / 32768; an AudioBuffer is
   [sampleRate, channels], channels a sequence of equally long sample
   sequences. *)
FullScale == 32768

Uint16(v) == v % 65536

(* view.setUint16(offset, v, true) and view.setUint32(offset, v, true): the
   bytes written, low byte first *)
setUint16(v) == <<v % 256, (v \div 256) % 256>>
setUint32(v) ==
    <<v % 256, (v \div 256) % 256, (v \div 65536) % 256,
      (v \div 16777216) % 256>>

(* Math.max(-1, Math.min(1, x)) *)
clamp(k) == IF k < 0 - FullScale THEN 0 - FullScale
            ELSE IF k > FullScale THEN FullScale ELSE k

(* s < 0 ? s * 0x8000 : s * 0x7FFF, then the truncation of setInt16 *)
scaleSample(k) ==
    LET s == clamp(k)
    IN IF s < 0 THEN (s * 32768) \div FullScale
       ELSE (s * 32767) \div FullScale

(* A slip: the bytes are written high byte first *)
setInt16_bigEndian(v) == <<Uint16(v) \div 256, Uint16(v) % 256>>

(* view.setInt16(offset, v, true): two bytes, low byte first *)
setInt16(v) == <<Uint16(v) % 256, Uint16(v) \div 256>>

(* A slip: the right channel follows the whole left channel *)
interleave_planar(left, right) == left \o right

(* result[i * 2] = left[i]; result[i * 2 + 1] = right[i] *)
interleave(left, right) ==
    [j \in 1 .. (Len(left) + Len(right)) |->
        IF j % 2 = 1 THEN left[(j + 1) \div 2] ELSE right[j \div 2]]

RECURSIVE writeSamples(_)
writeSamples(result) ==
    IF result = <<>> THEN <<>>
    ELSE setInt16(scaleSample(Head(result))) \o writeSamples(Tail(result))

audioBufferToWav(buffer) ==
    LET numChannels == Len(buffer.channels)
        result == IF numChannels = 2
                  THEN interleave(buffer.channels[1], buffer.channels[2])
                  ELSE buffer.channels[1]
        bytesPerSample == 16 \div 8
        blockAlign == numChannels * bytesPerSample
    IN [ byteLength |-> 44 + Len(result) * bytesPerSample,
         riff |-> "RIFF",
         riffSize |-> setUint32(36 + Len(result) * bytesPerSample),
         wave |-> "WAVE", fmt |-> "fmt ", fmtSize |-> setUint32(16),
         format |-> setUint16(1),
         numChannels |-> setUint16(numChannels),
         sampleRate |-> setUint32(buffer.sampleRate),
         byteRate |-> setUint32(buffer.sampleRate * blockAlign),
         blockAlign |-> setUint16(blockAlign),
         bitDepth |-> setUint16(16),
         dataTag |-> "data",
         dataSize |-> setUint32(Len(result) * bytesPerSample),
         data |-> writeSamples(result) ]

(* new Int16Array(pcmData.buffer)[i] / 32768.0, as a sample *)
createBufferFromRawPCM(pcmData) ==
    [i \in 1 .. (Len(pcmData) \div 2) |->
        LET u == pcmData[2 * i - 1] + 256 * pcmData[2 * i]
        IN IF u >= 32768 THEN u - 65536 ELSE u]

(* ------------------------------------------------------------------ *)
(* State machine                                                       *)
(* ------------------------------------------------------------------ *)
Bounded(T) ==
    \A id \in TrackIds :
        T[id].present =>
            /\ T[id].source <= MaxSources
            /\ Len(T[id].driftTimers) <= MaxDriftTimers
            /\ T[id].inverters <= MaxInverters
            /\ T[id].leaked <= MaxLeaked

Call(op, track, soloActive) ==
    [op |-> op, track |-> track, soloActive |-> soloActive]

(* last: whether the step just taken was a public call that took effect, and on
   which track; applied[id]: the most recent such call on track id *)
NoCall == [op |-> "none", id |-> 0]
Called(id) == [op |-> "call", id |-> id]

(* A public call that returned without taking effect *)
Ignored(op, id) == [op |-> op, id |-> id]

Constructed ==
    /\ tracks = [id \in TrackIds |-> NoTrack]
    /\ masterGain = Param(1000)
    /\ noiseSource = TRUE
    /\ applied = [id \in TrackIds |-> Call("none", createDefaultTrack(id), FALSE)]
    /\ last = NoCall

Init == Constructed /\ rampLog = FALSE

InitTrack(track) ==
    /\ tracks' = initTrack(tracks, track)
    /\ Bounded(tracks')
    /\ applied' = IF tracks[track.id].present THEN applied
                  ELSE [applied EXCEPT ![track.id] = Call("initTrack", track, FALSE)]
    /\ last' = IF tracks[track.id].present THEN Ignored("initTrack", track.id)
                ELSE Called(track.id)
    /\ UNCHANGED <<masterGain, noiseSource, rampLog>>

PlayTrack(track) ==
    /\ tracks' = playTrack(tracks, track)
    /\ Bounded(tracks')
    /\ applied' = IF tracks' = tracks THEN applied
                  ELSE [applied EXCEPT ![track.id] = Call("playTrack", track, FALSE)]
    /\ last' = IF tracks' = tracks THEN Ignored("playTrack", track.id)
                ELSE Called(track.id)
    /\ UNCHANGED <<masterGain, noiseSource, rampLog>>

StopTrack(trackId) ==
    /\ tracks' = stopTrack(tracks, trackId)
    /\ applied' = IF tracks' = tracks THEN applied
                  ELSE [applied EXCEPT ![trackId] =
                           Call("stopTrack", createDefaultTrack(trackId), FALSE)]
    /\ last' = IF tracks' = tracks THEN Ignored("stopTrack", trackId)
                ELSE Called(trackId)
    /\ UNCHANGED <<masterGain, noiseSource, rampLog>>

UpdateTrackParams(track, soloActive) ==
    /\ tracks' = updateTrackParams(tracks, track, soloActive)
    /\ Bounded(tracks')
    /\ applied' = IF ~tracks[track.id].present THEN applied
                  ELSE [applied EXCEPT ![track.id] =
                           Call("updateTrackParams", track, soloActive)]
    /\ last' = IF ~tracks[track.id].present
                THEN Ignored("updateTrackParams", track.id)
                ELSE Called(track.id)
    /\ UNCHANGED <<masterGain, noiseSource, rampLog>>

Reset ==
    /\ tracks' = resetFrom(tracks, 0)
    /\ masterGain' = updateMasterVolume(800)
    /\ noiseSource' = TRUE
    /\ applied' = [id \in TrackIds |->
                      IF tracks[id].present
                      THEN Call("reset", createDefaultTrack(id), FALSE)
                      ELSE applied[id]]
    /\ last' = [op |-> "reset", id |-> 0]
    /\ UNCHANGED rampLog

UpdateMasterVolume(vol) ==
    /\ masterGain' = updateMasterVolume(vol)
    /\ last' = NoCall
    /\ UNCHANGED <<tracks, noiseSource, applied, rampLog>>

(* The 100 ms timer of stopTrack fires *)
SourceStopTimer(id, g) ==
    /\ tracks[id].present
    /\ [gen |-> g, due |-> 0] \in tracks[id].stopTimers
    /\ tracks' = [tracks EXCEPT ![id] = stopOldSource(@, g)]
    /\ last' = NoCall
    /\ UNCHANGED <<masterGain, noiseSource, applied, rampLog>>

(* The 2100 ms timer of updateTrackDrift fires *)
DriftTimer(id) ==
    /\ tracks[id].present
    /\ tracks[id].driftTimers # <<>>
    /\ Head(tracks[id].driftTimers) = 0
    /\ tracks' = [tracks EXCEPT ![id] = driftTeardown(@)]
    /\ last' = NoCall
    /\ UNCHANGED <<masterGain, noiseSource, applied, rampLog>>

TimersDue ==
    \E id \in TrackIds :
        /\ tracks[id].present
        /\ \/ \E t \in tracks[id].stopTimers : t.due = 0
           \/ \E i \in DOMAIN tracks[id].driftTimers : tracks[id].driftTimers[i] = 0

TimersPending ==
    \E id \in TrackIds :
        tracks[id].present /\ (tracks[id].stopTimers # {} \/ tracks[id].driftTimers # <<>>)

MinDue ==
    LET dues == UNION {{t.due : t \in tracks[id].stopTimers}
                       \cup {tracks[id].driftTimers[i] :
                                i \in DOMAIN tracks[id].driftTimers} :
                       id \in {k \in TrackIds : tracks[k].present}}
    IN CHOOSE d \in dues : \A e \in dues : d <= e

elapseBy(n, d) ==
    [n EXCEPT !.stopTimers = {[gen |-> t.gen, due |-> t.due - d] : t \in @},
              !.driftTimers = [i \in DOMAIN @ |-> @[i] - d],
              !.sinceDisable = IF @ + d < DriftDelay THEN @ + d ELSE DriftDelay]

(* Time passes until the next pending timer is due *)
Wait ==
    /\ ~TimersDue
    /\ TimersPending
    /\ tracks' = [id \in TrackIds |->
                    IF tracks[id].present THEN elapseBy(tracks[id], MinDue)
                    ELSE tracks[id]]
    /\ last' = NoCall
    /\ UNCHANGED <<masterGain, noiseSource, applied, rampLog>>


(* 100 ms pass; a timer that is due fires before more time passes *)
Tick ==
    /\ ~TimersDue
    /\ TimersPending
    /\ tracks' = [id \in TrackIds |->
                    IF tracks[id].present THEN elapseBy(tracks[id], 1) ELSE tracks[id]]
    /\ last' = NoCall
    /\ UNCHANGED <<masterGain, noiseSource, applied, rampLog>>

(* ------------------------------------------------------------------ *)
(* Snapshots the callers supply, and the specifications                *)
(* ------------------------------------------------------------------ *)

(* Transport and the three LFO slots of track 0; the pan slot is enabled
   together with the volume slot *)
LFOSnapshots ==
    { [createDefaultTrack(0) EXCEPT
          !.buffer = TRUE, !.isPlaying = p,
          !.lfoVol.enabled = v, !.lfoPan.enabled = v, !.lfoPitch.enabled = pi] :
        p \in BOOLEAN, v \in BOOLEAN, pi \in BOOLEAN }

NextLFO ==
    \/ \E track \in LFOSnapshots : InitTrack(track)
    \/ \E track \in LFOSnapshots : UpdateTrackParams(track, FALSE)
    \/ \E track \in LFOSnapshots : PlayTrack(track)
    \/ StopTrack(0)
    \/ Reset
    \/ \E g \in Gens : SourceStopTimer(0, g)
    \/ Wait

SpecLFO == Init /\ [][NextLFO]_vars

(* The same with the event loop's guarantee: a stop timer that is due fires,
   and time does not stop while a timer is pending *)
SpecLFOFair ==
    SpecLFO /\ WF_vars(Wait) /\ \A g \in Gens : WF_vars(SourceStopTimer(0, g))

(* Drift on track 0, with the clock in ticks *)
DriftSnapshots ==
    { [createDefaultTrack(0) EXCEPT !.driftEnabled = d] : d \in BOOLEAN }

NextDrift ==
    \/ \E track \in DriftSnapshots : InitTrack(track)
    \/ \E track \in DriftSnapshots : UpdateTrackParams(track, FALSE)
    \/ Reset
    \/ DriftTimer(0)
    \/ Tick

SpecDrift == Init /\ [][NextDrift]_vars

(* The same with the event loop's guarantee: a timer that is due fires, and
   time does not stop while a timer is pending *)
SpecDriftFair == SpecDrift /\ WF_vars(DriftTimer(0)) /\ WF_vars(Tick)

(* The crossfade bridge of the pair (0, 1) *)
XfadeSnapshots ==
    { [createDefaultTrack(id) EXCEPT !.linkNext = l, !.crossfadeSpeed = s] :
        id \in {0, 1}, l \in BOOLEAN, s \in {100, 1000} }

NextXfade ==
    \/ \E track \in XfadeSnapshots : InitTrack(track)
    \/ \E track \in XfadeSnapshots : UpdateTrackParams(track, FALSE)
    \/ Reset

SpecXfade == Init /\ [][NextXfade]_vars

(* linkNext on three neighbouring tracks, so that the odd track has a
   successor it could be bridged to *)
PairSnapshots ==
    { [createDefaultTrack(id) EXCEPT !.linkNext = l] :
        id \in {0, 1, 2}, l \in BOOLEAN }

NextPairs ==
    \/ \E track \in PairSnapshots : InitTrack(track)
    \/ \E track \in PairSnapshots : UpdateTrackParams(track, FALSE)
    \/ Reset

SpecPairs == Init /\ [][NextPairs]_vars

(* One LFO, drift and the bridge together on track 0, track 1 as created *)
ModSnapshots ==
    { [createDefaultTrack(0) EXCEPT
          !.lfoVol.enabled = v, !.driftEnabled = d, !.linkNext = l] :
        v \in BOOLEAN, d \in BOOLEAN, l \in BOOLEAN }
    \cup {createDefaultTrack(1)}

NextMod ==
    \/ \E track \in ModSnapshots : InitTrack(track)
    \/ \E track \in ModSnapshots : UpdateTrackParams(track, FALSE)
    \/ UpdateMasterVolume(500)
    \/ Reset
    \/ DriftTimer(0)
    \/ Wait

SpecMod == Init /\ [][NextMod]_vars

(* Transport, mute and solo *)
MuteSnapshots ==
    { [createDefaultTrack(0) EXCEPT
          !.buffer = TRUE, !.isPlaying = p, !.isMuted = m, !.isSolo = s] :
        p \in BOOLEAN, m \in BOOLEAN, s \in BOOLEAN }
    \cup { [createDefaultTrack(1) EXCEPT !.isMuted = m, !.isSolo = s] :
        m \in BOOLEAN, s \in BOOLEAN }

NextMute ==
    \/ \E track \in MuteSnapshots : InitTrack(track)
    \/ \E track \in MuteSnapshots, soloActive \in BOOLEAN :
            UpdateTrackParams(track, soloActive)
    \/ \E track \in MuteSnapshots : PlayTrack(track)
    \/ \E id \in TrackIds : StopTrack(id)
    \/ Reset
    \/ \E g \in Gens : SourceStopTimer(0, g)
    \/ Wait

SpecMute == Init /\ [][NextMute]_vars

(* Feedback routing from track 0 into track 0 or 1, track 1 playing or not *)
FeedbackSnapshots ==
    { [createDefaultTrack(0) EXCEPT !.feedbackSend = f, !.feedbackTargetId = t] :
        f \in {0, 10, 500, 700, 1000},
        t \in {Undefined, Defined(0 - 1), Defined(0), Defined(1)} }
    \cup { [createDefaultTrack(1) EXCEPT !.buffer = TRUE, !.isPlaying = p] :
        p \in BOOLEAN }

NextFeedback ==
    \/ \E track \in FeedbackSnapshots : InitTrack(track)
    \/ \E track \in FeedbackSnapshots : UpdateTrackParams(track, FALSE)
    \/ \E track \in FeedbackSnapshots : PlayTrack(track)
    \/ \E id \in TrackIds : StopTrack(id)
    \/ Reset
    \/ \E g \in Gens : SourceStopTimer(1, g)
    \/ Wait

SpecFeedback == Init /\ [][NextFeedback]_vars

(* Volume and transport of track 0 and the master volume, with the ramps
   scheduled on every parameter recorded *)
RampSnapshots ==
    { [createDefaultTrack(0) EXCEPT
          !.buffer = TRUE, !.isPlaying = p, !.volume = v] :
        p \in BOOLEAN, v \in {300, 600} }

InitRamp == Constructed /\ rampLog = TRUE

NextRamp ==
    \/ \E track \in RampSnapshots : InitTrack(track)
    \/ \E track \in RampSnapshots : UpdateTrackParams(track, FALSE)
    \/ \E track \in RampSnapshots : PlayTrack(track)
    \/ StopTrack(0)
    \/ UpdateMasterVolume(500)
    \/ Reset
    \/ \E g \in Gens : SourceStopTimer(0, g)
    \/ Wait

SpecRamp == InitRamp /\ [][NextRamp]_vars

(* Target resolution for every id of the pool and every raw target *)
ResolveSnapshots ==
    { [createDefaultTrack(id) EXCEPT !.feedbackTargetId = t] :
        id \in 0 .. (PoolSize - 1),
        t \in {Undefined} \cup {Defined(x) : x \in (0 - 1) .. (PoolSize - 1)} }

(* const targetId = (rawTarget !== undefined) ? rawTarget : (track.id + 1) % 8 *)
ResolveTarget(track) ==
    /\ last' = [op |-> "resolveTarget", id |-> track.id,
                rawTarget |-> track.feedbackTargetId,
                targetId |-> resolveTarget(track)]
    /\ UNCHANGED <<tracks, masterGain, noiseSource, applied, rampLog>>

NextResolve ==
    \/ \E track \in ResolveSnapshots : ResolveTarget(track)
    \/ \E id \in TrackIds : InitTrack(createDefaultTrack(id))

SpecResolve == Init /\ [][NextResolve]_vars

(* The low and mid EQ sliders of track 0 in steps of 0.125 *)
EQSnapshots ==
    { [createDefaultTrack(0) EXCEPT !.eqLow = a, !.eqMid = b] :
        a \in {0, 125, 250, 375, 500, 625, 750, 875, 1000},
        b \in {0, 125, 250, 375, 500, 625, 750, 875, 1000} }

NextEQ ==
    \/ \E track \in EQSnapshots : InitTrack(track)
    \/ \E track \in EQSnapshots : UpdateTrackParams(track, FALSE)

SpecEQ == Init /\ [][NextEQ]_vars

(* Two tracks side by side: track 0 with transport, the bridge and a feedback
   send into track 1; track 1 with the volume LFO and a feedback send into
   track 0 *)
FrameSnapshots ==
    { [createDefaultTrack(0) EXCEPT
          !.buffer = TRUE, !.isPlaying = p, !.linkNext = l,
          !.feedbackSend = 700] :
        p \in BOOLEAN, l \in BOOLEAN }
    \cup { [createDefaultTrack(1) EXCEPT
               !.lfoVol.enabled = v,
               !.feedbackTargetId = Defined(0), !.feedbackSend = 700] :
             v \in BOOLEAN }

NextFrame ==
    \/ \E track \in FrameSnapshots : InitTrack(track)
    \/ \E track \in FrameSnapshots : UpdateTrackParams(track, FALSE)
    \/ \E track \in FrameSnapshots : PlayTrack(track)
    \/ \E id \in TrackIds : StopTrack(id)
    \/ \E g \in Gens : SourceStopTimer(0, g)
    \/ Wait

SpecFrame == Init /\ [][NextFrame]_vars

(* WAV export: mono one-frame buffers over a range of samples and the
   extremes, and mono and stereo buffers of every length up to MaxFrames *)
WavSamples ==
    ((0 - SampleSpan) .. SampleSpan)
        \cup {0 - 40000, 0 - FullScale, 1 - FullScale, 0 - 16384, 16384,
               FullScale - 2, FullScale - 1, FullScale, 40000}

ShapeSamples == {0 - FullScale, 0 - 1, 16384}

Frames(n) == [1 .. n -> ShapeSamples]

WavBuffers ==
    { [sampleRate |-> 24000, channels |-> <<(<<k>>)>>] : k \in WavSamples }
    \cup UNION { { [sampleRate |-> r, channels |-> <<l>>] : l \in Frames(n) }
                 \cup { [sampleRate |-> r, channels |-> <<l, rt>>] :
                           l \in Frames(n), rt \in Frames(n) } :
                 n \in 0 .. MaxFrames, r \in {24000, 44100} }

AudioBufferToWav(buffer) ==
    /\ last' = [op |-> "audioBufferToWav", id |-> 0, buffer |-> buffer,
                wav |-> audioBufferToWav(buffer)]
    /\ UNCHANGED <<tracks, masterGain, noiseSource, applied, rampLog>>

NextWav == \E buffer \in WavBuffers : AudioBufferToWav(buffer)

SpecWav == Init /\ [][NextWav]_vars

(* ------------------------------------------------------------------ *)
(* AiService.withRetry                                                 *)
(* ------------------------------------------------------------------ *)
(* A message is the sequence of its words; an error carries the status and the
   message the provider gave, status 0 standing for an absent status *)
toLowerCase(msg) ==
    [k \in DOMAIN msg |->
        CASE msg[k] = "Error" -> "error"
          [] msg[k] = "RESOURCE_" -> "resource_"
          [] msg[k] = "EXHAUSTED" -> "exhausted"
          [] msg[k] = "Billing" -> "billing"
          [] msg[k] = "Quota" -> "quota"
          [] msg[k] = "You" -> "you"
          [] msg[k] = "Network" -> "network"
          [] OTHER -> msg[k]]

includes(msg, phrase) ==
    \E k \in 0 .. (Len(msg) - Len(phrase)) :
        \A j \in 1 .. Len(phrase) : msg[k + j] = phrase[j]

(* A slip: only the status decides, the message is not read *)
isQuotaError_statusOnly(msg, status) == status = 401 \/ status = 403

isQuotaError(msg, status) ==
    \/ includes(msg, <<"insufficient_quota">>)
    \/ includes(msg, <<"billing">>)
    \/ includes(msg, <<"quota", "exceeded">>)
    \/ includes(msg, <<"you", "exceeded", "your", "current", "quota">>)
    \/ status = 401
    \/ status = 403

isRateLimit(msg, status) ==
    status = 429 \/ includes(msg, <<"429">>) \/ includes(msg, <<"exhausted">>)

isServerOverload(status) == status = 503 \/ status = 504

RECURSIVE pow(_, _)
pow(b, e) == IF e = 0 THEN 1 ELSE b * pow(b, e - 1)

(* A slip: the delay grows by baseDelay per attempt *)
backoff_linear(baseDelay, i) == baseDelay * (i + 1)

(* baseDelay * Math.pow(2, i) *)
backoff(baseDelay, i) == baseDelay * pow(2, i)

(* new Error(`Provider Access Denied: ${e.message}`) *)
AccessDenied(e) ==
    [status |-> 0, message |-> <<"Provider", "Access", "Denied:">> \o e.message]

Ok(v) == [ok |-> TRUE, value |-> v, status |-> 0, message |-> <<>>]
Err(status, message) ==
    [ok |-> FALSE, value |-> 0, status |-> status, message |-> message]
NoOutcome == Err(0, <<>>)

(* The test of the for loop, and the throw behind the loop *)
loopTest(r) ==
    IF r.i < r.retries THEN [r EXCEPT !.pc = "call"]
    ELSE [r EXCEPT !.pc = "thrown", !.thrown = r.lastError]

(* withRetry up to its first await *)
beginRetry(retries, baseDelay) ==
    loopTest([op |-> "withRetry", id |-> 0, retries |-> retries,
              baseDelay |-> baseDelay, i |-> 0, calls |-> 0,
              lastError |-> Undefined, delays |-> <<>>, pc |-> "call",
              value |-> 0, thrown |-> Undefined, outcome |-> NoOutcome])

(* One pass of the loop body: await fn(), the catch block, the delay, and the
   loop test that follows a continue *)
retryAttempt(r, outcome) ==
    LET called == [r EXCEPT !.calls = @ + 1, !.outcome = outcome]
    IN IF outcome.ok
       THEN [called EXCEPT !.pc = "returned", !.value = outcome.value]
       ELSE LET e == [status |-> outcome.status, message |-> outcome.message]
                c == [called EXCEPT !.lastError = Defined(e)]
                msg == toLowerCase(e.message)
                status == e.status
            IN IF isQuotaError(msg, status)
               THEN [c EXCEPT !.pc = "thrown", !.thrown = Defined(AccessDenied(e))]
               ELSE IF c.i = c.retries - 1
               THEN [c EXCEPT !.pc = "thrown", !.thrown = c.lastError]
               ELSE IF isRateLimit(msg, status) \/ isServerOverload(status)
               THEN loopTest([c EXCEPT
                                 !.delays = Append(@, backoff(c.baseDelay, c.i)),
                                 !.i = @ + 1])
               ELSE [c EXCEPT !.pc = "thrown", !.thrown = Defined(e)]

(* The failures and results the wrapped call is given *)
RetryStatuses == {0, 401, 403, 429, 500, 503, 504}
RetryMessages ==
    { <<>>, <<"Error", "429">>, <<"RESOURCE_", "EXHAUSTED">>,
      <<"insufficient_quota">>, <<"Billing">>, <<"Quota", "exceeded">>,
      <<"You", "exceeded", "your", "current", "quota">>,
      <<"exceeded", "Quota">>, <<"Network", "Error">> }
RetryOutcomes ==
    {Ok(1), Ok(2)}
        \cup {Err(s, <<>>) : s \in RetryStatuses}
        \cup {Err(s, m) : s \in {0, 429}, m \in RetryMessages}
BaseDelays == {250, DefaultBaseDelay}

Retrying == last.op = "withRetry" /\ last.pc = "call"

WithRetry(retries, baseDelay) ==
    /\ ~Retrying
    /\ last' = beginRetry(retries, baseDelay)
    /\ UNCHANGED <<tracks, masterGain, noiseSource, applied, rampLog>>

(* The promise of the wrapped call settles *)
RetryAttempt(outcome) ==
    /\ Retrying
    /\ last' = retryAttempt(last, outcome)
    /\ UNCHANGED <<tracks, masterGain, noiseSource, applied, rampLog>>

NextRetry ==
    \/ \E retries \in 0 .. MaxRetries, baseDelay \in BaseDelays :
            WithRetry(retries, baseDelay)
    \/ \E outcome \in RetryOutcomes : RetryAttempt(outcome)

SpecRetry == Init /\ [][NextRetry]_vars

(* ------------------------------------------------------------------ *)
(* App.handleAiMorph                                                   *)
(* ------------------------------------------------------------------ *)
mathMin(a, b) == IF a <= b THEN a ELSE b
mathMax(a, b) == IF a >= b THEN a ELSE b

safeNum(val, min, max, fallback) ==
    IF val = Undefined THEN fallback ELSE mathMax(min, mathMin(max, val[1]))

safeBool(val, fallback) == IF val = Undefined THEN fallback ELSE val[1]

safeLFO(base, input) ==
    IF input = Undefined THEN base
    ELSE [enabled |-> safeBool(input[1].enabled, base.enabled),
          rate |-> safeNum(input[1].rate, 10, 20000, base.rate),
          depth |-> safeNum(input[1].depth, 0, 1000, base.depth)]

(* A Partial<TrackData> that sets nothing *)
NoConfig ==
    [ volume |-> Undefined, pan |-> Undefined, playbackRate |-> Undefined,
      reverbSend |-> Undefined, driftEnabled |-> Undefined,
      eqLow |-> Undefined, eqMid |-> Undefined, eqHigh |-> Undefined,
      lfoVol |-> Undefined, lfoPan |-> Undefined, lfoPitch |-> Undefined,
      linkNext |-> Undefined, crossfadeSpeed |-> Undefined,
      granularSpray |-> Undefined, feedbackSend |-> Undefined,
      feedbackTargetId |-> Undefined ]

(* Math.max(0, Math.min(7, Number(conf.feedbackTargetId))) *)
mergeTarget(track, conf) ==
    IF conf.feedbackTargetId # Undefined
    THEN Defined(mathMax(0, mathMin(7, conf.feedbackTargetId[1])))
    ELSE track.feedbackTargetId

(* The body of prev.map: configs[index] merged into the track *)
mergeTrack(track, config, index) ==
    IF config = Undefined THEN track
    ELSE LET conf == config[1]
             m1 == [track EXCEPT
                       !.volume = safeNum(conf.volume, 0, 1000, @),
                       !.pan = safeNum(conf.pan, 0 - 1000, 1000, @),
                       !.playbackRate = safeNum(conf.playbackRate, 100, 4000, @),
                       !.reverbSend = safeNum(conf.reverbSend, 0, 1000, @),
                       !.driftEnabled = safeBool(conf.driftEnabled, @),
                       !.eqLow = safeNum(conf.eqLow, 0, 1000, @),
                       !.eqMid = safeNum(conf.eqMid, 0, 1000, @),
                       !.eqHigh = safeNum(conf.eqHigh, 0, 1000, @),
                       !.lfoVol = safeLFO(@, conf.lfoVol),
                       !.lfoPan = safeLFO(@, conf.lfoPan),
                       !.lfoPitch = safeLFO(@, conf.lfoPitch)]
             m2 == IF index % 2 = 0
                   THEN [m1 EXCEPT
                           !.linkNext = safeBool(conf.linkNext, @),
                           !.crossfadeSpeed = safeNum(conf.crossfadeSpeed, 10, 2000, @)]
                   ELSE m1
         IN [m2 EXCEPT
               !.granularSpray = safeNum(conf.granularSpray, 0, 1000, @),
               !.feedbackSend = safeNum(conf.feedbackSend, 0, 1000, @),
               !.feedbackTargetId = mergeTarget(track, conf)]

(* newTracks.forEach(t => engine.updateTrackParams(t, ...)), from index k on *)
RECURSIVE updateAll(_, _, _, _)
updateAll(T, newTracks, soloActive, k) ==
    IF k \notin TrackIds THEN T
    ELSE updateAll(updateTrackParams(T, newTracks[k], soloActive),
                   newTracks, soloActive, k + 1)

HandleAiMorph(prev, configs) ==
    LET newTracks == [index \in TrackIds |->
                         mergeTrack(prev[index], configs[index], index)]
        soloActive == \E index \in TrackIds : newTracks[index].isSolo
    IN /\ tracks' = updateAll(tracks, newTracks, soloActive, 0)
       /\ Bounded(tracks')
       /\ applied' = [id \in TrackIds |->
                         IF tracks[id].present
                         THEN Call("updateTrackParams", newTracks[id], soloActive)
                         ELSE applied[id]]
       /\ last' = [op |-> "handleAiMorph", id |-> 0, prev |-> prev,
                   configs |-> configs, newTracks |-> newTracks]
       /\ UNCHANGED <<masterGain, noiseSource, rampLog>>

(* The track list before the morph: track 0 sends to track 1 or is off *)
MorphTracks ==
    { [index \in TrackIds |->
          IF index = 0
          THEN [createDefaultTrack(0) EXCEPT
                  !.feedbackSend = 700, !.feedbackTargetId = t]
          ELSE createDefaultTrack(index)] :
        t \in {Defined(0 - 1), Defined(1)} }

(* What the provider answers for track 0 *)
MorphConfigs ==
    { [index \in TrackIds |->
          IF index = 0
          THEN c
          ELSE Undefined] :
        c \in {Undefined}
              \cup { Defined([NoConfig EXCEPT !.feedbackTargetId = t,
                                               !.feedbackSend = s]) :
                        t \in {Undefined} \cup {Defined(v) : v \in (0 - 1) .. PoolSize},
                        s \in {Undefined, Defined(1500)} } }

NextMorph ==
    \/ \E id \in {0, 1} : InitTrack(createDefaultTrack(id))
    \/ \E prev \in MorphTracks, configs \in MorphConfigs :
            HandleAiMorph(prev, configs)

SpecMorph == Init /\ [][NextMorph]_vars

(* ------------------------------------------------------------------ *)
(* Properties                                                          *)
(* ------------------------------------------------------------------ *)
LFOKeys == {"lfoVol", "lfoPan", "lfoPitch"}
PresentIds == {id \in TrackIds : tracks[id].present}

(* The state right after updateTrackParams took effect on track id *)
AfterUpdate(id) ==
    tracks[id].present /\ last = Called(id) /\ applied[id].op = "updateTrackParams"

(* The step just taken is updateTrackParams on the initialised track id *)
UpdateStep(id) ==
    tracks[id].present /\ last' = Called(id)
        /\ applied'[id].op = "updateTrackParams"

(* C1: in every reachable state each LFO slot has its oscillator and its
   scaling gain both present or both absent, and right after updateTrackParams
   they are present exactly when the snapshot's config.enabled is true. *)
C1_LFOPairIffEnabled ==
    \A id \in PresentIds : \A key \in LFOKeys :
        /\ tracks[id][key].osc <=> tracks[id][key].gain
        /\ AfterUpdate(id) =>
              /\ tracks[id][key].osc <=> applied[id].track[key].enabled
              /\ tracks[id][key].gain <=> applied[id].track[key].enabled

(* C2: the drift timer stops and disconnects the drift generator only when the
   full delay of 2.1 s has passed since the most recent update that disabled
   drift. *)
DriftTeardownStep(id) ==
    /\ tracks[id].present /\ tracks'[id].present
    /\ Len(tracks'[id].driftTimers) < Len(tracks[id].driftTimers)
    /\ tracks[id].drift.osc /\ ~tracks'[id].drift.osc

C2_TeardownAfterFullDelay ==
    [][\A id \in TrackIds :
          DriftTeardownStep(id) => tracks[id].sinceDisable >= DriftDelay]_vars

(* C3 as stated: no updateTrackParams step stops the generator of a modulation
   source (LFO, drift, crossfade) it disables; the stop is always deferred. *)
C3_EveryDisableDeferred ==
    [][\A id \in TrackIds :
          UpdateStep(id) =>
              /\ \A key \in LFOKeys : tracks[id][key].osc => tracks'[id][key].osc
              /\ tracks[id].drift.osc => tracks'[id].drift.osc
              /\ tracks[id].fade.osc => tracks'[id].fade.osc]_vars

(* C3 amended: only the drift disable path ramps the scaling gain to 0 and
   leaves the generator running and connected, with a 2.1 s timer pending; the
   LFO disable path and the crossfade unlink path stop, disconnect and release
   the generator within the updateTrackParams step itself. *)
C3_OnlyDriftDeferred ==
    [][\A id \in TrackIds :
          UpdateStep(id) =>
              LET n == tracks[id]
                  m == tracks'[id]
                  t == applied'[id].track
              IN /\ (n.drift.osc /\ ~t.driftEnabled) =>
                        /\ m.drift.osc /\ m.drift.gain
                        /\ m.drift.out = n.drift.out
                        /\ m.drift.depth = 0
                        /\ m.driftTimers = Append(n.driftTimers, DriftDelay)
                 /\ \A key \in LFOKeys :
                        (n[key].osc /\ ~t[key].enabled) =>
                            (~m[key].osc /\ ~m[key].gain /\ m[key].out = {})
                 /\ (n.fade.osc /\ ~(t.linkNext /\ Present(tracks', id + 1))) =>
                        (~m.fade.osc /\ ~m.fade.gain /\ ~m.fade.toFade
                            /\ ~m.fade.toInv)]_vars

C3_DriftFadingLFOGone ==
    /\ AfterUpdate(0)
    /\ ~applied[0].track.driftEnabled /\ ~applied[0].track.lfoVol.enabled
    /\ ~applied[0].track.linkNext
    /\ tracks[0].drift.osc /\ tracks[0].drift.depth = 0
    /\ tracks[0].driftTimers = <<DriftDelay>>
    /\ ~tracks[0].lfoVol.osc /\ ~tracks[0].fade.osc
    /\ tracks[0].inverters = 1

(* C4: while a stopped source awaits its deferred detach, the mute gate's
   target is 0. *)
C4_MuteGateClosedUntilDetach ==
    \A id \in PresentIds :
        tracks[id].stopTimers # {} => tracks[id].muteGain.target = 0

(* C5: once updateTrackParams has been applied to every track with one
   soloActive value, each mute gate's target is 1 exactly when the track is
   not muted and not silenced by another track's solo. *)
AllUpdatedWith(soloActive) ==
    /\ PresentIds # {}
    /\ \A id \in PresentIds :
          /\ applied[id].op = "updateTrackParams"
          /\ applied[id].soloActive = soloActive

C5_MuteSoloResolution ==
    \A soloActive \in BOOLEAN :
        AllUpdatedWith(soloActive) =>
            \A id \in PresentIds :
                tracks[id].muteGain.target =
                    IF ~applied[id].track.isMuted
                          /\ ~(soloActive /\ ~applied[id].track.isSolo)
                    THEN 1000 ELSE 0

C5_SoloSilencesOther ==
    /\ AllUpdatedWith(TRUE)
    /\ PresentIds = {0, 1}
    /\ applied[0].track.isSolo /\ ~applied[1].track.isSolo
    /\ ~applied[0].track.isMuted /\ ~applied[1].track.isMuted
    /\ tracks[0].source # 0
    /\ tracks[0].muteGain.target = 1000 /\ tracks[1].muteGain.target = 0

(* C6: a track has at most one outgoing feedback edge: each send has at most
   one destination, both sends lead to the same track, and right after
   updateTrackParams that track is the resolved target. *)
FeedbackDests(id) == tracks[id].fbOut \cup tracks[id].fbFMOut

C6_OneFeedbackEdge ==
    \A id \in PresentIds :
        /\ Cardinality(tracks[id].fbOut) <= 1
        /\ Cardinality(tracks[id].fbFMOut) <= 1
        /\ Cardinality({d[2] : d \in FeedbackDests(id)}) <= 1
        /\ AfterUpdate(id) =>
              \A d \in FeedbackDests(id) :
                 d[2] = IF applied[id].track.feedbackTargetId = Undefined
                        THEN (id + 1) % PoolSize
                        ELSE applied[id].track.feedbackTargetId[1]

C6_EdgeMovedToTrack1 ==
    /\ AfterUpdate(0)
    /\ tracks[0].fbOut = {Dest("eqMidFreq", 1, 0)}
    /\ tracks[0].fbFMOut # {}
    /\ tracks[1].source = 2

(* C7: right after updateTrackParams on an even track A the crossfade
   oscillator exists exactly when linkNext is true and track A+1 is
   initialised, and an update that finds the pair Linked and leaves it Linked
   builds nothing new. *)
C7_BridgeIffLinked ==
    [][\A id \in TrackIds :
          (UpdateStep(id) /\ id % 2 = 0) =>
              /\ tracks'[id].fade.osc <=>
                    (applied'[id].track.linkNext /\ Present(tracks', id + 1))
              /\ (tracks[id].fade.osc /\ tracks'[id].fade.osc) =>
                    /\ tracks'[id].inverters = tracks[id].inverters
                    /\ tracks'[id].leaked = tracks[id].leaked]_vars

C7_LinkedAgain ==
    /\ AfterUpdate(0)
    /\ applied[0].track.linkNext
    /\ tracks[0].fade.osc /\ tracks[0].fade.freq = 1000
    /\ tracks[0].inverters = 2

(* C8: while the pair (A, A+1) is Linked the two crossfade gains add up to 1:
   both are biased at 0.5, A receives the oscillator scaled by +0.5 and A+1
   the same signal scaled by -0.5. *)
fadeSignalA(n) ==
    IF n.fade.osc /\ n.fade.gain /\ n.fade.toFade THEN n.fade.depth ELSE 0

fadeSignalB(n) ==
    IF n.fade.osc /\ n.fade.gain /\ n.fade.toInv
    THEN (n.fade.depth * n.fade.invGain) \div 1000 ELSE 0

C8_Complementary ==
    \A a \in PresentIds :
        tracks[a].fade.osc =>
            /\ Present(tracks, a + 1)
            /\ tracks[a].fadeGain.target = 500
            /\ tracks[a + 1].fadeGain.target = 500
            /\ fadeSignalA(tracks[a]) = 500
            /\ fadeSignalB(tracks[a]) = 0 - 500

C8_LinkedAfterReset ==
    /\ Present(tracks, 0) /\ Present(tracks, 1)
    /\ tracks[0].fade.osc
    /\ tracks[0].leaked = 1
    /\ applied[1].op = "updateTrackParams"

(* C9: a modulation source that has been torn down leaves no node connected
   to a parameter, and link/unlink cycles do not add up connections into the
   successor's crossfade-gain parameter. *)
C9_NoDanglingConnection ==
    \A id \in PresentIds :
        /\ \A key \in LFOKeys : ~tracks[id][key].osc => tracks[id][key].out = {}
        /\ ~tracks[id].drift.osc => tracks[id].drift.out = {}
        /\ ~tracks[id].fade.osc =>
              (~tracks[id].fade.toFade /\ ~tracks[id].fade.toInv
                  /\ tracks[id].inverters = 0)
        /\ tracks[id].inverters <= 1
        /\ tracks[id].leaked = 0

(* C10: right after reset() every initialised track has no active source, all
   five modulation slots released, the documented defaults on its gains, and
   the master volume is 0.8 with the noise source running. *)
C10_ResetRestoresAll ==
    last.op = "reset" =>
        /\ masterGain.target = 800
        /\ noiseSource
        /\ \A id \in PresentIds :
              LET n == tracks[id]
              IN /\ n.source = 0
                 /\ \A key \in LFOKeys : n[key] = NoLFO
                 /\ n.drift = NoDrift
                 /\ n.fade = NoFade
                 /\ n.volGain.target = 600
                 /\ n.muteGain.target = 1000
                 /\ n.fadeGain.target = 1000
                 /\ n.pan.target = 0
                 /\ n.reverbSend.target = 200
                 /\ n.sprayGain.target = 0
                 /\ n.feedbackGain.target = 0
                 /\ n.feedbackFMGain.target = 0

(* C11: an initTrack call for an id that is already present leaves the track
   pool, the master gain and the noise source exactly as they were, whatever
   snapshot it is given. *)
C11_InitTrackIdempotent ==
    [][last'.op = "initTrack" =>
          (tracks' = tracks /\ masterGain' = masterGain
              /\ noiseSource' = noiseSource)]_vars

C11_InitOnPlayingTrack ==
    /\ last = Ignored("initTrack", 0)
    /\ Present(tracks, 0)
    /\ tracks[0].source # 0
    /\ tracks[0].lfoVol.osc /\ ~tracks[0].lfoPitch.osc
    /\ tracks[0].lfoVol.out # {}

(* C12: a stopTrack call on a track that is not initialised or has no active
   source changes nothing in the engine and schedules no timer. *)
StopStep(id) ==
    \/ last' = Ignored("stopTrack", id)
    \/ last' = Called(id) /\ applied'[id].op = "stopTrack"

C12_StopWithoutSourceNoOp ==
    [][\A id \in TrackIds :
          (StopStep(id) /\ (~tracks[id].present \/ tracks[id].source = 0)) =>
              (tracks' = tracks /\ masterGain' = masterGain
                  /\ noiseSource' = noiseSource)]_vars

C12_StoppedTwice ==
    /\ last = Ignored("stopTrack", 0)
    /\ Present(tracks, 0)
    /\ tracks[0].source = 0
    /\ tracks[0].stopTimers # {}
    /\ ~Present(tracks, 1)

(* C13: right after updateTrackParams on a track, applying the same snapshot
   once more leaves every LFO slot (oscillator, gain, connections, rate and
   depth targets) and the number of abandoned gains as they are. *)
C13_SameLFOFlagsTwice ==
    \A id \in PresentIds :
        AfterUpdate(id) =>
            LET again == updateTrackParams(tracks, applied[id].track,
                                           applied[id].soloActive)
            IN /\ \A key \in LFOKeys : again[id][key] = tracks[id][key]
               /\ again[id].leaked = tracks[id].leaked

C13_EnabledAfterReset ==
    /\ AfterUpdate(0)
    /\ applied[0].track.lfoVol.enabled /\ applied[0].track.lfoPitch.enabled
    /\ applied[0].track.isPlaying
    /\ tracks[0].source # 0
    /\ tracks[0].lfoPitch.out = {Dest("rate", 0, tracks[0].source)}
    /\ tracks[0].lfoVol.osc
    /\ tracks[0].leaked > 0

(* C14: no parameter ever carries more than one scheduled ramp that has not
   been cancelled: every operation that schedules a ramp cancels the earlier
   automation of that parameter first. *)
ParamKeys ==
    {"volGain", "muteGain", "fadeGain", "pan", "reverbSend", "sprayGain",
     "feedbackGain", "feedbackFMGain", "eqLow", "eqMid", "eqHigh", "rate"}

C14_OnePendingRamp ==
    /\ masterGain.ramps <= 1
    /\ \A id \in PresentIds : \A key \in ParamKeys : tracks[id][key].ramps <= 1

(* C15: an updateTrackParams call that follows an earlier updateTrackParams on
   the same track creates or destroys the active source, an LFO, the drift
   generator or the crossfade oscillator only if the corresponding flag differs
   from the snapshot applied before. *)
C15_LifecycleFollowsFlagDiff ==
    [][\A id \in TrackIds :
          (UpdateStep(id) /\ applied[id].op = "updateTrackParams") =>
              LET n == tracks[id]
                  m == tracks'[id]
                  old == applied[id].track
                  new == applied'[id].track
              IN /\ m.source # n.source => new.isPlaying # old.isPlaying
                 /\ \A key \in LFOKeys :
                        m[key].osc # n[key].osc =>
                            new[key].enabled # old[key].enabled
                 /\ m.drift.osc # n.drift.osc =>
                        new.driftEnabled # old.driftEnabled
                 /\ m.fade.osc # n.fade.osc =>
                        new.linkNext # old.linkNext]_vars

(* C16: a track without an active source has its pitch LFO gain connected to
   no parameter, and right after updateTrackParams with the pitch LFO enabled
   the pitch LFO exists. *)
C16_PitchLFOUnconnectedWhenStopped ==
    \A id \in PresentIds :
        /\ tracks[id].source = 0 => tracks[id].lfoPitch.out = {}
        /\ (AfterUpdate(id) /\ applied[id].track.lfoPitch.enabled) =>
              tracks[id].lfoPitch.osc

(* C17: each LFO gain is connected to at most one parameter: the volume LFO to
   the tremolo gain, the pan LFO to the pan parameter, the pitch LFO to the
   playback rate of one source of its track, never to an old and a new source
   at once. *)
C17_OneTargetPerLFO ==
    \A id \in PresentIds :
        /\ tracks[id].lfoVol.out \subseteq {Dest("tremolo", id, 0)}
        /\ tracks[id].lfoPan.out \subseteq {Dest("pan", id, 0)}
        /\ Cardinality(tracks[id].lfoPitch.out) <= 1
        /\ \A d \in tracks[id].lfoPitch.out : d[1] = "rate" /\ d[2] = id

(* C18: the spray gain is connected to the playback rate of the track's
   current active source when there is one, and to nothing when there is
   none. *)
C18_SprayFollowsSource ==
    \A id \in PresentIds :
        tracks[id].sprayOut =
            IF tracks[id].source # 0
            THEN {Dest("rate", id, tracks[id].source)} ELSE {}

C18_SecondSourceSprayed ==
    /\ Present(tracks, 0)
    /\ tracks[0].source = 2
    /\ tracks[0].live = {1, 2}
    /\ tracks[0].sprayOut = {Dest("rate", 0, 2)}

(* C19: right after updateTrackParams on a track whose resolved target t is not
   -1 and is initialised, the frequency-deviation send is connected to t's
   mid-filter frequency exactly when feedbackSend > 0.01, the FM send to the
   playback rate of t's active source exactly when feedbackSend > 0.5 and t
   has an active source, and neither send has any other connection. *)
C19_SendsFollowThresholds ==
    \A id \in PresentIds :
        LET track == applied[id].track
            t == resolveTarget(track)
        IN (AfterUpdate(id) /\ t # 0 - 1 /\ Present(tracks, t)) =>
              /\ tracks[id].fbOut =
                    IF track.feedbackSend > 10
                    THEN {Dest("eqMidFreq", t, 0)} ELSE {}
              /\ tracks[id].fbFMOut =
                    IF track.feedbackSend > 500 /\ tracks[t].source # 0
                    THEN {Dest("rate", t, tracks[t].source)} ELSE {}

C19_BothSendsIntoPlayingTarget ==
    /\ AfterUpdate(0) /\ Present(tracks, 1)
    /\ applied[0].track.feedbackSend = 700
    /\ applied[0].track.feedbackTargetId = Defined(1)
    /\ tracks[1].source # 0
    /\ tracks[0].fbOut = {Dest("eqMidFreq", 1, 0)}
    /\ tracks[0].fbFMOut = {Dest("rate", 1, tracks[1].source)}
    /\ tracks[0].feedbackGain.target = 2100
    /\ tracks[0].feedbackFMGain.target = 800

(* C20: the resolved feedback target is feedbackTargetId when it is defined
   (-1 included), and for an undefined one the next id of the ring: a track id
   in 0..7, 0 for track 7. *)
C20_TargetResolution ==
    last.op = "resolveTarget" =>
        IF last.rawTarget # Undefined
        THEN last.targetId = last.rawTarget[1]
        ELSE /\ last.targetId \in 0 .. (PoolSize - 1)
             /\ last.targetId = IF last.id = PoolSize - 1 THEN 0 ELSE last.id + 1

C20_Track7WrapsTo0 ==
    /\ last.op = "resolveTarget"
    /\ last.id = 7 /\ last.rawTarget = Undefined /\ last.targetId = 0

(* C21: right after updateTrackParams with a resolved target of -1 both
   feedback-send gains have target 0 and neither send has an outgoing
   connection, whatever feedbackSend is. *)
C21_TargetOffSilencesSends ==
    \A id \in PresentIds :
        (AfterUpdate(id) /\ resolveTarget(applied[id].track) = 0 - 1) =>
            /\ tracks[id].feedbackGain.target = 0
            /\ tracks[id].feedbackFMGain.target = 0
            /\ tracks[id].fbOut = {} /\ tracks[id].fbFMOut = {}

C21_OffWithFullSend ==
    /\ AfterUpdate(0) /\ Present(tracks, 1)
    /\ applied[0].track.feedbackTargetId = Defined(0 - 1)
    /\ applied[0].track.feedbackSend = 1000
    /\ tracks[0].feedbackGain.target = 0
    /\ tracks[1].source # 0

(* C22: right after updateTrackParams with an initialised target the
   frequency-deviation gain target is feedbackSend * 3000 and the FM gain
   target is 0 up to feedbackSend = 0.5 and (feedbackSend - 0.5) * 4 above:
   3000 and 2.0 at 1.0, 2100 and 0.8 at 0.7. *)
C22_FeedbackMapping ==
    \A id \in PresentIds :
        LET track == applied[id].track
            t == resolveTarget(track)
            fs == track.feedbackSend
            dev == tracks[id].feedbackGain.target
            fm == tracks[id].feedbackFMGain.target
        IN (AfterUpdate(id) /\ t # 0 - 1 /\ Present(tracks, t)) =>
              /\ dev * 1000 = fs * 3000
              /\ fs <= 500 => fm = 0
              /\ fs > 500 => fm * 1000 = (fs - 500) * 4000
              /\ fs = 1000 => (dev = 3000 /\ fm = 2000)
              /\ fs = 700 => (dev = 2100 /\ fm = 800)

C22_SendAtOne ==
    /\ AfterUpdate(0)
    /\ Present(tracks, resolveTarget(applied[0].track))
    /\ applied[0].track.feedbackSend = 1000
    /\ tracks[0].feedbackGain.target = 3000
    /\ tracks[0].feedbackFMGain.target = 2000

(* C23: the EQ mapping sends slider 0 to -40 dB, 0.5 to 0 dB and 1 to +12 dB,
   is linear below 0.5 (80 dB per unit) and above 0.5 (24 dB per unit), and
   never decreases when the slider increases. *)
C23_EQMapping ==
    \A id \in PresentIds :
        LET a == applied[id].track.eqLow
            b == applied[id].track.eqMid
            ga == tracks[id].eqLow.target
            gb == tracks[id].eqMid.target
        IN applied[id].op \in {"initTrack", "updateTrackParams"} =>
              /\ a = 0 => ga = 0 - 40000
              /\ a = 500 => ga = 0
              /\ a = 1000 => ga = 12000
              /\ a <= b => ga <= gb
              /\ (a <= 500 /\ b <= 500) => gb - ga = 80 * (b - a)
              /\ (a >= 500 /\ b >= 500) => gb - ga = 24 * (b - a)

C23_BothHalves ==
    /\ AfterUpdate(0)
    /\ applied[0].track.eqLow = 375 /\ applied[0].track.eqMid = 1000
    /\ tracks[0].eqLow.target = 0 - 10000
    /\ tracks[0].eqMid.target = 12000

(* C24: no operation can fault: wherever an oscillator of an LFO or drift slot
   is present its scaling gain is present too, so the unguarded uses of the
   gain (manageLFO, updateTrackDrift) never meet null, and a drift timer that
   fires on a generator already torn down changes nothing but the timer
   queue. *)
C24_NoFaultingStep ==
    \A id \in PresentIds :
        /\ \A key \in LFOKeys : tracks[id][key].osc => tracks[id][key].gain
        /\ tracks[id].drift.osc => tracks[id].drift.gain
        /\ (tracks[id].driftTimers # <<>> /\ ~tracks[id].drift.osc) =>
              driftTeardown(tracks[id]) =
                  [tracks[id] EXCEPT !.driftTimers = Tail(@)]

C24_TimerPendingAfterReset ==
    /\ Present(tracks, 0)
    /\ last.op = "reset"
    /\ tracks[0].driftTimers # <<>>
    /\ ~tracks[0].drift.osc /\ tracks[0].drift.gain
    /\ ~tracks[0].lfoVol.osc /\ tracks[0].lfoVol.gain

(* C25: an updateTrackParams, playTrack or stopTrack call on track i leaves the
   nodes of every other track as they were, except the crossfade gain of track
   i+1 when i is even. *)
TrackCallStep(i) ==
    /\ last' = Called(i)
    /\ applied'[i].op \in {"updateTrackParams", "playTrack", "stopTrack"}

C25_OtherTracksUntouched ==
    [][\A i \in TrackIds :
          TrackCallStep(i) =>
              \A j \in TrackIds \ {i} :
                  /\ tracks'[j].present = tracks[j].present
                  /\ tracks[j].present =>
                        /\ tracks'[j] =
                              [tracks[j] EXCEPT !.fadeGain = tracks'[j].fadeGain]
                        /\ tracks'[j].fadeGain # tracks[j].fadeGain =>
                              (i % 2 = 0 /\ j = i + 1)]_vars

C25_NeighbourPlayingWhileLinked ==
    /\ AfterUpdate(1) /\ Present(tracks, 0)
    /\ tracks[1].lfoVol.osc /\ tracks[1].fbFMOut # {}
    /\ tracks[0].source # 0 /\ tracks[0].fade.osc
    /\ tracks[0].stopTimers # {}
    /\ tracks[1].fadeGain.target = 500

(* C26: after updateTrackParams the track has an active source when isPlaying
   is true and a buffer is supplied, none when isPlaying is false, and a
   track already playing that is updated with isPlaying = true keeps its
   source. *)
C26_TransportFollowsIsPlaying ==
    [][\A id \in TrackIds :
          UpdateStep(id) =>
              LET track == applied'[id].track
              IN /\ (track.isPlaying /\ track.buffer) => tracks'[id].source # 0
                 /\ ~track.isPlaying => tracks'[id].source = 0
                 /\ (track.isPlaying /\ tracks[id].source # 0) =>
                        /\ tracks'[id].source = tracks[id].source
                        /\ tracks'[id].live = tracks[id].live
                        /\ tracks'[id].stopTimers = tracks[id].stopTimers]_vars

C26_StillFirstSource ==
    /\ AfterUpdate(0)
    /\ applied[0].track.isPlaying /\ applied[0].track.lfoPitch.enabled
    /\ tracks[0].source = 1 /\ tracks[0].live = {1}
    /\ tracks[0].lfoPitch.out = {Dest("rate", 0, 1)}
    /\ tracks[0].leaked = 0

(* C27: whenever the pair (A, A+1) of an even track A is not Linked, the
   crossfade gains of A and of A+1 both have target 1.0; in particular after
   the update that unlinks the pair. *)
C27_UnlinkedPassThrough ==
    \A a \in PresentIds :
        (a % 2 = 0 /\ ~tracks[a].fade.osc) =>
            /\ tracks[a].fadeGain.target = 1000
            /\ Present(tracks, a + 1) => tracks[a + 1].fadeGain.target = 1000

C27_JustUnlinked ==
    /\ AfterUpdate(0) /\ Present(tracks, 1)
    /\ ~applied[0].track.linkNext
    /\ ~tracks[0].fade.osc /\ tracks[0].inverters = 1
    /\ tracks[0].fadeGain.target = 1000 /\ tracks[1].fadeGain.target = 1000

(* C28: for a mono buffer, decoding the data written by audioBufferToWav as
   16-bit PCM gives back every sample k/32768 (k in -32768..32767) within
   1/32768: a negative sample exactly (scale 32768), a non-negative one
   scaled by 32767 and truncated; samples outside [-1, 1] are clamped. *)
C28_WavRoundTrip ==
    (last.op = "audioBufferToWav" /\ Len(last.buffer.channels) = 1) =>
        LET samples == last.buffer.channels[1]
            decoded == createBufferFromRawPCM(last.wav.data)
        IN /\ Len(decoded) = Len(samples)
           /\ \A i \in 1 .. Len(samples) :
                 LET k == samples[i]
                     d == decoded[i]
                 IN /\ (k >= 0 - 32768 /\ k <= 32767) =>
                          (d - k <= 1 /\ k - d <= 1)
                    /\ (k >= 0 - 32768 /\ k < 0) => d = k
                    /\ (k >= 0 /\ k <= 32768) => d = (k * 32767) \div 32768
                    /\ k > 32768 => d = 32767
                    /\ k < 0 - 32768 => d = 0 - 32768

C28_TopSampleWritten ==
    /\ last.op = "audioBufferToWav"
    /\ last.buffer.channels = <<(<<32767>>)>>
    /\ last.wav.data = <<254, 127>>

(* C29: for a buffer of c = 1 or 2 channels, n frames and rate r the file is
   44 + 2cn bytes long, the data chunk length is 2cn, the RIFF size 36 + 2cn,
   block align 2c, byte rate 2cr, format tag 1, bit depth 16, and a stereo
   buffer is written left, right frame by frame. *)
RECURSIVE readLE(_)
readLE(bytes) ==
    IF bytes = <<>> THEN 0 ELSE Head(bytes) + 256 * readLE(Tail(bytes))

C29_WavLayout ==
    (last.op = "audioBufferToWav" /\ Len(last.buffer.channels) \in {1, 2}) =>
        LET c == Len(last.buffer.channels)
            n == Len(last.buffer.channels[1])
            r == last.buffer.sampleRate
            w == last.wav
            decoded == createBufferFromRawPCM(w.data)
        IN /\ w.byteLength = 44 + 2 * c * n
           /\ Len(w.data) = 2 * c * n
           /\ readLE(w.dataSize) = 2 * c * n
           /\ readLE(w.riffSize) = 36 + 2 * c * n
           /\ readLE(w.blockAlign) = 2 * c
           /\ readLE(w.byteRate) = r * 2 * c
           /\ readLE(w.sampleRate) = r
           /\ readLE(w.numChannels) = c
           /\ readLE(w.format) = 1 /\ readLE(w.bitDepth) = 16
           /\ Len(w.dataSize) = 4 /\ Len(w.riffSize) = 4 /\ Len(w.blockAlign) = 2
           /\ c = 2 =>
                 \A i \in 1 .. n :
                    /\ decoded[2 * i - 1] = scaleSample(last.buffer.channels[1][i])
                    /\ decoded[2 * i] = scaleSample(last.buffer.channels[2][i])

C29_StereoTwoFrames ==
    /\ last.op = "audioBufferToWav"
    /\ last.buffer.sampleRate = 44100
    /\ last.buffer.channels = << <<0 - 1, 16384>>, <<0 - 32768, 0 - 1>> >>
    /\ last.wav.byteLength = 52
    /\ last.wav.data = <<255, 255, 0, 128, 255, 63, 255, 255>>

(* C30: while the snapshot applied last to a track has driftEnabled = true, its
   drift generator is present and connected to the volume gain: no timer left
   over from an earlier disable, or surviving a reset, removes it. *)
C30_DriftOnKeepsGenerator ==
    \A id \in PresentIds :
        (applied[id].op \in {"initTrack", "updateTrackParams"}
            /\ applied[id].track.driftEnabled) =>
            /\ tracks[id].drift.osc /\ tracks[id].drift.gain
            /\ tracks[id].drift.out = {Dest("volGain", id, 0)}

(* C31: the timer of stopTrack stops and disconnects only the source that was
   active when stopTrack was called: when it fires, the track's active source
   is left as it is, still started and connected. *)
StopTimerStep(id) ==
    /\ tracks[id].present /\ tracks'[id].present
    /\ last' = NoCall
    /\ Cardinality(tracks'[id].stopTimers) < Cardinality(tracks[id].stopTimers)

C31_TimerStopsOldSourceOnly ==
    [][\A id \in TrackIds :
          StopTimerStep(id) =>
              /\ tracks'[id].source = tracks[id].source
              /\ tracks[id].source # 0 =>
                    (tracks'[id].source \in tracks'[id].live
                        /\ tracks'[id].sprayOut = tracks[id].sprayOut)]_vars

C31_NewSourceSurvivesTimer ==
    /\ Present(tracks, 0)
    /\ last = NoCall
    /\ tracks[0].source = 2 /\ tracks[0].live = {2}
    /\ tracks[0].stopTimers = {}

(* C32: every playback-rate parameter the FM feedback send of a track is
   connected to belongs to the current active source of the target track, and
   while the sender's last applied feedbackSend is above 0.5 a playing target
   has the FM connection. *)
C32_FMSendOnActiveSource ==
    \A id \in PresentIds :
        /\ \A d \in tracks[id].fbFMOut :
              Present(tracks, d[2]) /\ tracks[d[2]].source = d[3]
        /\ LET track == applied[id].track
                t == resolveTarget(track)
            IN (applied[id].op = "updateTrackParams" /\ track.feedbackSend > 500
                   /\ Present(tracks, t) /\ tracks[t].source # 0) =>
                  tracks[id].fbFMOut = {Dest("rate", t, tracks[t].source)}

(* C33: once updateTrackParams has disabled drift on track 0, either drift is
   enabled again or the drift generator and its gain both become null. *)
DriftDisabled(id) ==
    /\ Present(tracks, id)
    /\ applied[id].op = "updateTrackParams"
    /\ ~applied[id].track.driftEnabled

DriftReleased(id) ==
    Present(tracks, id) /\ ~tracks[id].drift.osc /\ ~tracks[id].drift.gain

C33_DisabledDriftReleased ==
    DriftDisabled(0) ~> (~DriftDisabled(0) \/ DriftReleased(0))

(* C34: a source of track 0 that is still connected but is no longer the
   track's current source is eventually stopped and disconnected, whatever
   calls follow; and every such source has its stop timer pending. *)
Replaced(id, g) ==
    Present(tracks, id) /\ g \in tracks[id].live /\ tracks[id].source # g

C34_ReplacedSourceStopped ==
    /\ [](Present(tracks, 0) =>
            tracks[0].live \ {tracks[0].source} =
                {t.gen : t \in tracks[0].stopTimers})
    /\ \A g \in Gens : Replaced(0, g) ~> ~Replaced(0, g)

C34_StoppedByResetAndTimer ==
    /\ Present(tracks, 0)
    /\ applied[0].op = "reset"
    /\ last = NoCall
    /\ tracks[0].live = {}

(* C35: in every state a drift oscillator that is set has its gain set, and an
   LFO oscillator that is set has its gain set. *)
C35_OscillatorHasGain ==
    \A id \in PresentIds :
        /\ tracks[id].drift.osc => tracks[id].drift.gain
        /\ \A key \in LFOKeys : tracks[id][key].osc => tracks[id][key].gain

C35_GainsOutliveOscillators ==
    /\ Present(tracks, 0)
    /\ last = NoCall
    /\ applied[0].op = "reset"
    /\ tracks[0].drift.gain /\ ~tracks[0].drift.osc
    /\ tracks[0].lfoVol.gain /\ ~tracks[0].lfoVol.osc

(* C36: a playTrack call on a track that is not initialised or already has a
   source changes no engine state; a playTrack call that takes effect was given
   a buffer and registers exactly one new source; and every connected source
   other than the registered one is already waiting for its deferred stop. *)
PlayStep(id) ==
    \/ last' = Ignored("playTrack", id)
    \/ last' = Called(id) /\ applied'[id].op = "playTrack"

C36_PlayGuards ==
    /\ [](\A id \in PresentIds :
            tracks[id].live \ {t.gen : t \in tracks[id].stopTimers}
                \subseteq {tracks[id].source})
    /\ [][\A id \in TrackIds :
            PlayStep(id) =>
                /\ (~tracks[id].present \/ tracks[id].source # 0) =>
                       (tracks' = tracks /\ masterGain' = masterGain
                           /\ noiseSource' = noiseSource)
                /\ tracks' # tracks =>
                       /\ applied'[id].track.buffer
                       /\ tracks'[id].source # 0
                       /\ tracks'[id].live = tracks[id].live \cup {tracks'[id].source}]_vars

C36_PlayOnPlayingTrack ==
    /\ Present(tracks, 0)
    /\ last = Ignored("playTrack", 0)
    /\ tracks[0].source # 0

(* C37: an odd-id track never has a crossfade oscillator or its scaling gain,
   whatever linkNext says, and the crossfade gain of every track is fed by the
   running bridge of at most one track. *)
Bridges(t) ==
    {a \in PresentIds :
        /\ tracks[a].fade.osc
        /\ \/ a = t /\ tracks[a].fade.toFade
           \/ a + 1 = t /\ tracks[a].fade.toInv}

C37_BridgesOnEvenPairs ==
    /\ \A id \in PresentIds :
          id % 2 = 1 => (~tracks[id].fade.osc /\ ~tracks[id].fade.gain)
    /\ \A t \in PresentIds : Cardinality(Bridges(t)) <= 1

C37_OddTrackAskedToLink ==
    /\ Present(tracks, 1) /\ Present(tracks, 2)
    /\ last = Called(1)
    /\ applied[1].op = "updateTrackParams"
    /\ applied[1].track.linkNext
    /\ tracks[0].present /\ tracks[0].fade.osc

(* The wrapped call was invoked once more in this step *)
AttemptStep ==
    /\ last.op = "withRetry" /\ last'.op = "withRetry"
    /\ last'.calls = last.calls + 1

Failure(o) == [status |-> o.status, message |-> o.message]

RateLimitFailure(o) ==
    \/ o.status = 429
    \/ includes(toLowerCase(o.message), <<"429">>)
    \/ includes(toLowerCase(o.message), <<"exhausted">>)

OverloadFailure(o) == o.status = 503 \/ o.status = 504

AuthQuotaFailure(o) ==
    \/ o.status = 401 \/ o.status = 403
    \/ includes(toLowerCase(o.message), <<"insufficient_quota">>)
    \/ includes(toLowerCase(o.message), <<"billing">>)
    \/ includes(toLowerCase(o.message), <<"quota", "exceeded">>)

DeniedFailure(o) ==
    AuthQuotaFailure(o)
        \/ includes(toLowerCase(o.message),
                    <<"you", "exceeded", "your", "current", "quota">>)

RetryBounds ==
    last.op = "withRetry" =>
        /\ last.calls <= last.retries
        /\ last.delays =
              SubSeq(<<last.baseDelay, 2 * last.baseDelay, 4 * last.baseDelay,
                       8 * last.baseDelay>>, 1, Len(last.delays))
        /\ last.pc = "call" => Len(last.delays) = last.calls

RetryPath ==
    AttemptStep =>
        LET o == last'.outcome
        IN /\ o.ok => (last'.pc = "returned" /\ last'.value = o.value
                          /\ last'.delays = last.delays)
           /\ (~o.ok /\ last'.pc = "call") =>
                  /\ RateLimitFailure(o) \/ OverloadFailure(o)
                  /\ Len(last'.delays) = Len(last.delays) + 1
           /\ ~o.ok /\ last'.pc # "call" => last'.pc = "thrown"

(* C38, as stated: withRetry calls at most `retries` times, retries only after
   a rate-limit or overload failure, waits baseDelay * 2^i before attempt i+1,
   returns the first successful result, and after the failure of attempt
   number `retries` throws that very error. *)
C38_LastErrorRethrown ==
    /\ []RetryBounds
    /\ [][RetryPath /\
            (AttemptStep /\ ~last'.outcome.ok /\ last'.calls = last'.retries =>
                last'.thrown = Defined(Failure(last'.outcome)))]_vars

(* C38, amended: the same, except that when the failure of attempt number
   `retries` is an auth or quota failure, the error thrown is the
   'Provider Access Denied' error made from it. *)
C38_BoundedBackoff ==
    /\ []RetryBounds
    /\ [][RetryPath /\
            (AttemptStep /\ ~last'.outcome.ok /\ last'.calls = last'.retries =>
                last'.thrown =
                    IF DeniedFailure(last'.outcome)
                    THEN Defined(AccessDenied(Failure(last'.outcome)))
                    ELSE Defined(Failure(last'.outcome)))]_vars

C38_FourthAttemptFails ==
    /\ last.op = "withRetry"
    /\ last.retries = 4 /\ last.calls = 4
    /\ last.baseDelay = DefaultBaseDelay
    /\ last.delays = <<1000, 2000, 4000>>
    /\ last.pc = "thrown"
    /\ last.thrown = Defined([status |-> 503, message |-> <<>>])

(* C39: an auth or quota failure ends withRetry at once with a
   'Provider Access Denied' error, also when its status is 429, and a failure
   that is neither rate-limit nor overload ends it at once as well; no delay
   is taken and no further attempt is made. *)
C39_FatalFailuresNotRetried ==
    [][AttemptStep /\ ~last'.outcome.ok =>
          LET o == last'.outcome
          IN /\ AuthQuotaFailure(o) =>
                   /\ last'.pc = "thrown"
                   /\ last'.thrown = Defined(AccessDenied(Failure(o)))
                   /\ last'.delays = last.delays
             /\ (~AuthQuotaFailure(o) /\ ~RateLimitFailure(o)
                     /\ ~OverloadFailure(o)) =>
                   /\ last'.pc = "thrown"
                   /\ last'.thrown \in {Defined(Failure(o)),
                                        Defined(AccessDenied(Failure(o)))}
                   /\ last'.delays = last.delays]_vars

C39_QuotaWith429 ==
    /\ last.op = "withRetry"
    /\ last.retries = DefaultRetries /\ last.calls = 1
    /\ last.outcome = Err(429, <<"insufficient_quota">>)
    /\ last.pc = "thrown"

(* C40: after handleAiMorph, the merged track 0 has feedbackTargetId -1 when
   the config says -1, and its two feedback sends are then at 0 in the engine;
   it has the config's value when that is 0..7; and it keeps its previous
   target when the config has no feedbackTargetId. *)
C40_MorphKeepsTarget ==
    (last.op = "handleAiMorph" /\ last.configs[0] # Undefined) =>
        LET given == last.configs[0][1].feedbackTargetId
            merged == last.newTracks[0].feedbackTargetId
        IN /\ given = Undefined => merged = last.prev[0].feedbackTargetId
           /\ (given # Undefined /\ given[1] \in 0 .. 7) => merged = given
           /\ given = Defined(0 - 1) =>
                 /\ merged = Defined(0 - 1)
                 /\ Present(tracks, 0) =>
                       /\ tracks[0].feedbackGain.target = 0
                       /\ tracks[0].feedbackFMGain.target = 0
====
